---- MODULE Spec2Model ----
(***************************************************************************)
(* Model of server.py: a single-threaded HTTP server that serves static    *)
(* files and proxies /livelan/ requests to an internal stream server,      *)
(* rewriting absolute origin URLs inside .m3u8 playlists.                  *)
(*                                                                         *)
(* The response of one request is modelled as the sequence of items the    *)
(* handler hands to the client socket (wire): status lines, header lines,  *)
(* the blank line that ends the headers, and body writes.  hbuf is the     *)
(* handler's _headers_buffer: send_response/send_header only append to it  *)
(* and end_headers flushes it to the socket.                               *)
(***************************************************************************)
EXTENDS Naturals, Sequences, FiniteSets

VARIABLES
    pc,        \* position of the accept loop / of the running handler
    arrived,   \* connections made by clients so far (the listen backlog is FIFO)
    accepted,  \* connections the accept loop has taken; the n-th is request n
    finished,  \* requests whose handler has returned
    wlog,      \* request numbers in the order their writes reached a socket
    method,    \* self.command of the current request
    reqPath,   \* the path as received
    path,      \* self.path (do_GET may replace it)
    hbuf,      \* self._headers_buffer
    wire,      \* what has been written to the client socket for this request
    clientOk,  \* FALSE once the client socket is broken (writes raise)
    resp,      \* the upstream response object (status, headers) or NoResp
    upChunks,  \* what the upstream body has delivered so far, read by read
    pending,   \* data the handler holds and is about to write
    upReqs,    \* upstream GETs issued for this request
    fileReads, \* static file lookups made for this request
    failure,   \* first failure of this request: event, step, exception class
    escaped,   \* TRUE if an exception left the handler (socketserver logs it)
    rwIn,      \* input of the playlist rewrite (rewrite specification only)
    rwOut      \* its output

vars == <<pc, arrived, accepted, finished, wlog, method, reqPath, path, hbuf, wire, clientOk,
          resp, upChunks, pending, upReqs, fileReads, failure, escaped,
          rwIn, rwOut>>

reqVars == <<method, reqPath, path, hbuf, wire, clientOk, resp, upChunks,
             pending, upReqs, fileReads, failure, escaped>>

----------------------------------------------------------------------------
(* Bounds of the model *)

NumClients == 2     \* connections made, one request each
MaxHdrs == 2        \* headers in an upstream response
MaxReads == 2       \* reads of the upstream body in the passthrough branch
MaxText == 2        \* tokens in a playlist body fetched by the server
MaxBody == 4        \* tokens in a playlist body given to the rewrite alone


----------------------------------------------------------------------------
(* Module constants of server.py *)

STREAM_SERVER == "192.168.6.200:8088"
LIVELAN == "/livelan/"

----------------------------------------------------------------------------
(* Sequences *)

RECURSIVE Flatten(_)
Flatten(ss) == IF ss = <<>> THEN <<>> ELSE Head(ss) \o Flatten(Tail(ss))

RECURSIVE SeqsUpTo(_, _)
SeqsUpTo(S, n) ==
    IF n = 0 THEN {<<>>}
    ELSE LET shorter == SeqsUpTo(S, n - 1)
         IN  shorter \cup {Append(s, x) : s \in shorter, x \in S}

Last(s) == s[Len(s)]

----------------------------------------------------------------------------
(* Request paths, as sequences of path pieces *)

Root == <<"/">>
IndexHtml == <<"/", "index.html">>
LivelanPrefix == <<"/", "livelan", "/">>

Paths ==
    { Root,
      IndexHtml,
      <<"/", "missing.js">>,
      <<"/", "livelan">>,
      <<"/", "livelan", "/", "a", ".m3u8">>,
      <<"/", "livelan", "/", "a", ".ts">>,
      <<"/", "livelan", "/", "a", ".M3U8">>,
      <<"/", "livelan", "/", "a", ".m3u8", "?token=x">> }

Methods == {"GET", "OPTIONS"}

StartsWith(p, pre) ==
    /\ Len(p) >= Len(pre)
    /\ SubSeq(p, 1, Len(pre)) = pre

EndsWith(p, suf) ==
    /\ Len(p) >= Len(suf)
    /\ SubSeq(p, Len(p) - Len(suf) + 1, Len(p)) = suf

\* fault variant of IsProxyPath: the prefix test without the trailing slash
IsProxyPathNoSlash(p) == StartsWith(p, <<"/", "livelan">>)

IsProxyPath(p) == StartsWith(p, LivelanPrefix)

\* fault variant of IsPlaylistPath: the suffix is compared case-insensitively
\* and after the query string has been cut off
IsPlaylistPathLoose(p) ==
    \E i \in 1..Len(p) :
        /\ p[i] \in {".m3u8", ".M3U8"}
        /\ \A j \in (i + 1)..Len(p) : p[j] = "?token=x"

IsPlaylistPath(p) == EndsWith(p, <<".m3u8">>)

----------------------------------------------------------------------------
(* Items written to the client *)

Item(k, name, val, num, data, src) ==
    [k |-> k, name |-> name, val |-> val, num |-> num, data |-> data, src |-> src]

StatusLine(code, src) == Item("status", "", "", code, <<>>, src)
Hdr(name, val, src) == Item("hdr", name, val, 0, <<>>, src)
LenHdr(n, src) == Item("hdr", "Content-Length", "", n, <<>>, src)
EndOfHeaders == Item("end", "", "", 0, <<>>, "engine")
BodyWrite(data, src) == Item("body", "", "", 0, data, src)

----------------------------------------------------------------------------
(* Upstream responses *)

UpStatuses == {200, 302, 503}

UpHeaderPool ==
    { [name |-> "Content-Type", val |-> "application/vnd.apple.mpegurl"],
      [name |-> "Content-Length", val |-> "999"],
      [name |-> "content-length", val |-> "999"],
      [name |-> "Cache-Control", val |-> "max-age=60"] }

\* fault variant of Lower: the header name is compared as it came
LowerNoop(name) == name

\* str.lower() on the header names of the pool
Lower(name) ==
    CASE name = "Content-Type" -> "content-type"
      [] name = "Content-Length" -> "content-length"
      [] name = "content-length" -> "content-length"
      [] name = "Cache-Control" -> "cache-control"
      [] OTHER -> name

\* resp.headers is a case-insensitive mapping: no name occurs twice
UpHeaderSets ==
    { hs \in SeqsUpTo(UpHeaderPool, MaxHdrs) :
        \A i, j \in 1..Len(hs) : i # j => Lower(hs[i].name) # Lower(hs[j].name) }

NoResp == [status |-> 0, headers |-> <<>>]

\* chunks iter_content can yield (chunk_size=8192 is scaled down to 2 bytes):
\* an empty one, a short one and a full one
Chunks == {<<>>, <<"x">>, <<"y", "x">>}

----------------------------------------------------------------------------
(* Playlist text, as a sequence of tokens *)

OriginLookalike == "192x168.6.200:8088"   \* differs from STREAM_SERVER in one '.'
Tokens == {"http://", "https://", STREAM_SERVER, OriginLookalike, LIVELAN,
           "seg1.ts", "U+00E9"}
FetchTokens == {"http://", STREAM_SERVER, LIVELAN, "U+00E9"}

\* characters and UTF-8 bytes of a token
CharLen(t) ==
    CASE t = "http://" -> 7
      [] t = "https://" -> 8
      [] t = STREAM_SERVER -> 18
      [] t = OriginLookalike -> 18
      [] t = LIVELAN -> 9
      [] t = "seg1.ts" -> 7
      [] t = "U+00E9" -> 1
      [] OTHER -> 1

Utf8Len(t) == IF t = "U+00E9" THEN 2 ELSE CharLen(t)

\* fault variant of IsScheme: the pattern http:// without the optional s
IsSchemeHttpOnly(t) == t = "http://"

\* r'https?://'
IsScheme(t) == t \in {"http://", "https://"}

\* fault variant of IsOrigin: STREAM_SERVER used as a pattern without
\* re.escape, so that each '.' matches any character
IsOriginUnescaped(t) == t \in {STREAM_SERVER, OriginLookalike}

\* re.escape(STREAM_SERVER): the dots match only dots
IsOrigin(t) == t = STREAM_SERVER

\* length of the match of  https?://ORIGIN(/livelan/)?  at the head of s, 0 if none
MatchLen(s) ==
    IF Len(s) >= 2 /\ IsScheme(s[1]) /\ IsOrigin(s[2])
    THEN IF Len(s) >= 3 /\ s[3] = LIVELAN THEN 3 ELSE 2
    ELSE 0

\* re.sub(pattern, '/livelan/', content): leftmost matches, left to right
RECURSIVE Rewrite(_)
Rewrite(s) ==
    IF s = <<>> THEN <<>>
    ELSE IF MatchLen(s) > 0
         THEN <<LIVELAN>> \o Rewrite(SubSeq(s, MatchLen(s) + 1, Len(s)))
         ELSE <<Head(s)>> \o Rewrite(Tail(s))

\* content.encode('utf-8'): each token becomes its run of bytes
RECURSIVE Encode(_)
Encode(s) ==
    IF s = <<>> THEN <<>>
    ELSE <<[text |-> Head(s), bytes |-> Utf8Len(Head(s))]>> \o Encode(Tail(s))

\* len() of an encoded body
RECURSIVE ByteLen(_)
ByteLen(b) == IF b = <<>> THEN 0 ELSE Head(b).bytes + ByteLen(Tail(b))

----------------------------------------------------------------------------
(* http.server pieces the handler calls *)

\* send_response(code): status line, then the Server and Date headers
SendResponse(buf, code, src) ==
    buf \o <<StatusLine(code, src), Hdr("Server", "", "std"), Hdr("Date", "", "std")>>

InjectedNames ==
    <<"Access-Control-Allow-Origin", "Access-Control-Allow-Methods",
      "Access-Control-Allow-Headers", "Cache-Control", "Pragma", "Expires">>

InjectedValue(n) ==
    CASE n = "Access-Control-Allow-Origin" -> "*"
      [] n = "Access-Control-Allow-Methods" -> "GET, POST, OPTIONS"
      [] n = "Access-Control-Allow-Headers" -> "Content-Type"
      [] n = "Cache-Control" -> "no-cache, no-store, must-revalidate"
      [] n = "Pragma" -> "no-cache"
      [] n = "Expires" -> "0"

\* end_headers(): the six fixed headers, then the blank line
EndHeaders(buf) ==
    buf \o [i \in 1..Len(InjectedNames) |->
                Hdr(InjectedNames[i], InjectedValue(InjectedNames[i]), "injected")]
        \o <<EndOfHeaders>>

\* fault variant of excluded_headers: content-length is not filtered
excluded_headers_without_length == {"transfer-encoding", "content-encoding"}

\* the header loop of proxy_request
excluded_headers == {"transfer-encoding", "content-encoding", "content-length"}

RECURSIVE CopyHeaders(_)
CopyHeaders(hs) ==
    IF hs = <<>> THEN <<>>
    ELSE (IF Lower(Head(hs).name) \notin excluded_headers
          THEN <<Hdr(Head(hs).name, Head(hs).val, "upstream")>>
          ELSE <<>>) \o CopyHeaders(Tail(hs))

\* the except clauses of proxy_request
ErrCode(exc) == IF exc = "Timeout" THEN 504 ELSE 502

\* fault variant of ErrMsg: the ConnectionError clause is missing, so a
\* refused connection falls through to the generic handler
ErrMsgGeneric(exc) ==
    IF exc = "Timeout" THEN "Gateway Timeout" ELSE "Bad Gateway: {e}"

ErrMsg(exc) ==
    CASE exc = "Timeout" -> "Gateway Timeout"
      [] exc = "ConnectionError" -> "Bad Gateway: Cannot connect to stream server"
      [] OTHER -> "Bad Gateway: {e}"

NoFailure == [event |-> "none", at |-> "none", exc |-> "none"]

----------------------------------------------------------------------------
(* Writes to the client socket *)

\* wfile.write(items) on a live socket
Written(items) ==
    /\ wire' = wire \o items
    /\ wlog' = IF wlog # <<>> /\ Last(wlog) = accepted THEN wlog ELSE Append(wlog, accepted)

\* send_error(code, msg) starting from header buffer buf: status line and
\* headers are appended to the buffer, end_headers flushes it, then the
\* error page is written.  On a broken socket the flush raises and the
\* exception leaves the handler.
SendError(buf, code, msg) ==
    LET head == EndHeaders(SendResponse(buf, code, "engine")
                    \o <<Hdr("Connection", "close", "engine"),
                         Hdr("Content-Type", "text/html;charset=utf-8", "engine"),
                         LenHdr(1, "engine")>>)
    IN  IF clientOk
        THEN /\ Written(head \o <<BodyWrite(<<msg>>, "engine")>>)
             /\ hbuf' = <<>>
             /\ escaped' = FALSE
        ELSE /\ hbuf' = head
             /\ escaped' = TRUE
             /\ UNCHANGED <<wire, wlog>>

\* an exception of class exc raised inside the try block of proxy_request,
\* with buf the header buffer at that moment
Raise(event, at, exc, buf) ==
    /\ failure' = [event |-> event, at |-> at, exc |-> exc]
    /\ SendError(buf, ErrCode(exc), ErrMsg(exc))
    /\ pc' = "done"

\* exception classes requests raises for a failure of the upstream fetch
GetFailures ==
    { <<"timeout", "Timeout">>, <<"refused", "ConnectionError">>,
      <<"other", "Exception">> }

\* ... and for a failure while the body is read: a read timeout surfaces as
\* Timeout or, wrapped by iter_content, as ConnectionError, depending on the
\* requests version; a broken transfer as ConnectionError or another
\* RequestException
ReadFailures ==
    { <<"timeout", "Timeout">>, <<"timeout", "ConnectionError">>,
      <<"broken", "ConnectionError">>, <<"broken", "Exception">> }

----------------------------------------------------------------------------
(* The server *)

Idle ==
    /\ method = "" /\ reqPath = <<>> /\ path = <<>>
    /\ hbuf = <<>> /\ wire = <<>> /\ clientOk = TRUE
    /\ resp = NoResp /\ upChunks = <<>> /\ pending = <<>>
    /\ upReqs = 0 /\ fileReads = 0
    /\ failure = NoFailure /\ escaped = FALSE

Init ==
    /\ pc = "accept"
    /\ arrived = 0
    /\ accepted = 0
    /\ finished = 0
    /\ wlog = <<>>
    /\ Idle
    /\ rwIn = <<>> /\ rwOut = <<>>

\* a client connects and sends its request; the connection waits in the
\* listen backlog
Connect ==
    /\ arrived < NumClients
    /\ arrived' = arrived + 1
    /\ UNCHANGED <<pc, accepted, finished, wlog, reqVars, rwIn, rwOut>>

\* fault variant of Accept: a connection is taken while a handler is still
\* running (a threading server)
AcceptWhileHandling(m, p) ==
    /\ accepted < arrived
    /\ accepted' = accepted + 1
    /\ method' = m
    /\ reqPath' = p
    /\ path' = p
    /\ pc' = "dispatch"
    /\ UNCHANGED <<arrived, finished, wlog, hbuf, wire, clientOk, resp, upChunks,
                   pending, upReqs, fileReads, failure, escaped, rwIn, rwOut>>

\* serve_forever of socketserver.TCPServer: the loop takes the next
\* connection only when no handler is running, and runs the handler inline
Accept(m, p) ==
    /\ pc = "accept"
    /\ accepted < arrived
    /\ accepted' = accepted + 1
    /\ method' = m
    /\ reqPath' = p
    /\ path' = p
    /\ pc' = "dispatch"
    /\ UNCHANGED <<arrived, finished, wlog, hbuf, wire, clientOk, resp, upChunks,
                   pending, upReqs, fileReads, failure, escaped, rwIn, rwOut>>

\* the client goes away while its request is being handled
ClientDisconnect ==
    /\ pc \notin {"accept", "done"}
    /\ clientOk
    /\ clientOk' = FALSE
    /\ UNCHANGED <<pc, arrived, accepted, finished, wlog, method, reqPath, path, hbuf, wire, resp,
                   upChunks, pending, upReqs, fileReads, failure, escaped,
                   rwIn, rwOut>>

\* fault variant of do_OPTIONS: the headers are never ended, so the buffered
\* status line is not flushed
do_OPTIONS_NoEndHeaders ==
    /\ pc = "dispatch"
    /\ method = "OPTIONS"
    /\ hbuf' = SendResponse(hbuf, 200, "engine")
    /\ pc' = "done"
    /\ UNCHANGED <<arrived, accepted, finished, wlog, method, reqPath, path, wire,
                   clientOk, resp, upChunks, pending, upReqs, fileReads, failure,
                   escaped, rwIn, rwOut>>

\* do_OPTIONS
do_OPTIONS ==
    /\ pc = "dispatch"
    /\ method = "OPTIONS"
    /\ LET buf == EndHeaders(SendResponse(hbuf, 200, "engine"))
       IN  IF clientOk
           THEN /\ Written(buf)
                /\ hbuf' = <<>>
                /\ UNCHANGED <<failure, escaped>>
           ELSE /\ hbuf' = buf
                /\ failure' = [event |-> "client", at |-> "flush", exc |-> "OSError"]
                /\ escaped' = TRUE
                /\ UNCHANGED <<wire, wlog>>
    /\ pc' = "done"
    /\ UNCHANGED <<arrived, accepted, finished, method, reqPath, path, clientOk, resp, upChunks,
                   pending, upReqs, fileReads, rwIn, rwOut>>

\* do_GET, static branch: '/' becomes '/index.html', then
\* SimpleHTTPRequestHandler.do_GET serves the file or answers 404
do_GET_static(found) ==
    /\ pc = "dispatch"
    /\ method = "GET"
    /\ ~IsProxyPath(path)
    /\ path' = IF path = Root THEN IndexHtml ELSE path
    /\ fileReads' = fileReads + 1
    /\ IF found
       THEN LET buf == EndHeaders(SendResponse(hbuf, 200, "engine")
                          \o <<Hdr("Content-type", "text/html", "engine"),
                               LenHdr(1, "engine"),
                               Hdr("Last-Modified", "", "engine")>>)
            IN  IF clientOk
                THEN /\ Written(buf \o <<BodyWrite(<<"file">>, "file")>>)
                     /\ hbuf' = <<>>
                     /\ UNCHANGED <<failure, escaped>>
                ELSE /\ hbuf' = buf
                     /\ failure' = [event |-> "client", at |-> "flush",
                                    exc |-> "OSError"]
                     /\ escaped' = TRUE
                     /\ UNCHANGED <<wire, wlog>>
       ELSE /\ SendError(hbuf, 404, "File not found")
            /\ failure' = IF clientOk THEN failure
                          ELSE [event |-> "client", at |-> "flush", exc |-> "OSError"]
    /\ pc' = "done"
    /\ UNCHANGED <<arrived, accepted, finished, method, reqPath, clientOk, resp, upChunks, pending,
                   upReqs, rwIn, rwOut>>

\* do_GET, proxy branch: proxy_request builds the target URL and issues
\* requests.get(target_url, stream=True, timeout=10)
do_GET_proxy ==
    /\ pc = "dispatch"
    /\ method = "GET"
    /\ IsProxyPath(path)
    /\ upReqs' = upReqs + 1
    /\ pc' = "get"
    /\ UNCHANGED <<arrived, accepted, finished, wlog, method, reqPath, path, hbuf, wire, clientOk,
                   resp, upChunks, pending, fileReads, failure, escaped,
                   rwIn, rwOut>>

\* fault variant of GetResponse: the engine answers 200 whatever the
\* upstream status
GetResponseAlways200(s, hs) ==
    /\ pc = "get"
    /\ resp' = [status |-> s, headers |-> hs]
    /\ hbuf' = SendResponse(hbuf, 200, "upstream") \o CopyHeaders(hs)
    /\ pc' = IF IsPlaylistPath(path) THEN "text" ELSE "end_headers"
    /\ UNCHANGED <<arrived, accepted, finished, wlog, method, reqPath, path, wire,
                   clientOk, upChunks, pending, upReqs, fileReads, failure, escaped,
                   rwIn, rwOut>>

\* requests.get returns: send_response(resp.status_code) and the header loop
GetResponse(s, hs) ==
    /\ pc = "get"
    /\ resp' = [status |-> s, headers |-> hs]
    /\ hbuf' = SendResponse(hbuf, s, "upstream") \o CopyHeaders(hs)
    /\ pc' = IF IsPlaylistPath(path) THEN "text" ELSE "end_headers"
    /\ UNCHANGED <<arrived, accepted, finished, wlog, method, reqPath, path, wire, clientOk,
                   upChunks, pending, upReqs, fileReads, failure, escaped,
                   rwIn, rwOut>>

\* fault variant of GetFail: a failed fetch is tried once more
GetFailRetry(f) ==
    /\ pc = "get"
    /\ IF upReqs < 2
       THEN /\ upReqs' = upReqs + 1
            /\ pc' = "get"
            /\ UNCHANGED <<wlog, hbuf, wire, failure, escaped>>
       ELSE /\ Raise(f[1], "get", f[2], hbuf)
            /\ UNCHANGED upReqs
    /\ UNCHANGED <<arrived, accepted, finished, method, reqPath, path, clientOk,
                   resp, upChunks, pending, fileReads, rwIn, rwOut>>

\* requests.get raises
GetFail(f) ==
    /\ pc = "get"
    /\ Raise(f[1], "get", f[2], hbuf)
    /\ UNCHANGED <<arrived, accepted, finished, method, reqPath, path, clientOk, resp, upChunks,
                   pending, upReqs, fileReads, rwIn, rwOut>>

\* playlist branch: resp.text, re.sub, encode, Content-Length, end_headers
ReadText(body) ==
    /\ pc = "text"
    /\ upChunks' = <<body>>
    /\ LET encoded_content == Encode(Rewrite(body))
           buf == EndHeaders(hbuf \o <<LenHdr(ByteLen(encoded_content), "engine")>>)
       IN  IF clientOk
           THEN /\ Written(buf)
                /\ hbuf' = <<>>
                /\ pending' = encoded_content
                /\ pc' = "write_body"
                /\ UNCHANGED <<failure, escaped>>
           ELSE /\ Raise("client", "flush", "OSError", buf)
                /\ UNCHANGED pending
    /\ UNCHANGED <<arrived, accepted, finished, method, reqPath, path, clientOk, resp, upReqs,
                   fileReads, rwIn, rwOut>>

\* resp.text raises while the body is read
ReadTextFail(f) ==
    /\ pc = "text"
    /\ Raise(f[1], "text", f[2], hbuf)
    /\ UNCHANGED <<arrived, accepted, finished, method, reqPath, path, clientOk, resp, upChunks,
                   pending, upReqs, fileReads, rwIn, rwOut>>

\* self.wfile.write(encoded_content)
WriteBody ==
    /\ pc = "write_body"
    /\ IF clientOk
       THEN /\ Written(<<BodyWrite(pending, "upstream")>>)
            /\ pc' = "done"
            /\ UNCHANGED <<hbuf, failure, escaped>>
       ELSE Raise("client", "write", "OSError", hbuf)
    /\ pending' = <<>>
    /\ UNCHANGED <<arrived, accepted, finished, method, reqPath, path, clientOk, resp, upChunks,
                   upReqs, fileReads, rwIn, rwOut>>

\* passthrough branch: self.end_headers()
PassEndHeaders ==
    /\ pc = "end_headers"
    /\ LET buf == EndHeaders(hbuf)
       IN  IF clientOk
           THEN /\ Written(buf)
                /\ hbuf' = <<>>
                /\ pc' = "iter"
                /\ UNCHANGED <<failure, escaped>>
           ELSE Raise("client", "flush", "OSError", buf)
    /\ UNCHANGED <<arrived, accepted, finished, method, reqPath, path, clientOk, resp, upChunks,
                   pending, upReqs, fileReads, rwIn, rwOut>>

\* fault variant of IterChunk: the chunks are collected instead of being
\* written as they come (resp.content instead of iter_content)
IterChunkCollect(chunk) ==
    /\ pc = "iter"
    /\ Len(upChunks) < MaxReads
    /\ upChunks' = Append(upChunks, chunk)
    /\ pending' = pending \o chunk
    /\ pc' = "iter"
    /\ UNCHANGED <<arrived, accepted, finished, wlog, method, reqPath, path, hbuf,
                   wire, clientOk, resp, upReqs, fileReads, failure, escaped,
                   rwIn, rwOut>>

\* the next chunk of resp.iter_content(chunk_size=8192); 'if chunk:' skips
\* the write of an empty one
IterChunk(chunk) ==
    /\ pc = "iter"
    /\ Len(upChunks) < MaxReads
    /\ upChunks' = Append(upChunks, chunk)
    /\ pending' = chunk
    /\ pc' = IF chunk # <<>> THEN "write_chunk" ELSE "iter"
    /\ UNCHANGED <<arrived, accepted, finished, wlog, method, reqPath, path, hbuf, wire, clientOk,
                   resp, upReqs, fileReads, failure, escaped, rwIn, rwOut>>

\* fault variant of WriteChunk: a single send() that transmits only the first
\* byte of the chunk
WriteChunkFirstByte ==
    /\ pc = "write_chunk"
    /\ IF clientOk
       THEN /\ Written(<<BodyWrite(<<Head(pending)>>, "upstream")>>)
            /\ pc' = "iter"
            /\ UNCHANGED <<hbuf, failure, escaped>>
       ELSE Raise("client", "write", "OSError", hbuf)
    /\ pending' = <<>>
    /\ UNCHANGED <<arrived, accepted, finished, method, reqPath, path, clientOk,
                   resp, upChunks, upReqs, fileReads, rwIn, rwOut>>

\* self.wfile.write(chunk)
WriteChunk ==
    /\ pc = "write_chunk"
    /\ IF clientOk
       THEN /\ Written(<<BodyWrite(pending, "upstream")>>)
            /\ pc' = "iter"
            /\ UNCHANGED <<hbuf, failure, escaped>>
       ELSE Raise("client", "write", "OSError", hbuf)
    /\ pending' = <<>>
    /\ UNCHANGED <<arrived, accepted, finished, method, reqPath, path, clientOk, resp, upChunks,
                   upReqs, fileReads, rwIn, rwOut>>

\* the iterator is exhausted: the upstream body is complete
IterEnd ==
    /\ pc = "iter"
    /\ pc' = "done"
    /\ UNCHANGED <<arrived, accepted, finished, wlog, method, reqPath, path, hbuf, wire, clientOk,
                   resp, upChunks, pending, upReqs, fileReads, failure, escaped,
                   rwIn, rwOut>>

\* iter_content raises while a chunk is awaited
IterFail(f) ==
    /\ pc = "iter"
    /\ Raise(f[1], "iter", f[2], hbuf)
    /\ UNCHANGED <<arrived, accepted, finished, method, reqPath, path, clientOk, resp, upChunks,
                   pending, upReqs, fileReads, rwIn, rwOut>>

\* fault variant of Finish: an exception that left the handler is not caught
\* by the server loop, which ends with it
FinishUnlessEscaped ==
    /\ pc = "done"
    /\ ~escaped
    /\ finished' = finished + 1
    /\ pc' = "accept"
    /\ method' = "" /\ reqPath' = <<>> /\ path' = <<>>
    /\ hbuf' = <<>> /\ wire' = <<>> /\ clientOk' = TRUE
    /\ resp' = NoResp /\ upChunks' = <<>> /\ pending' = <<>>
    /\ upReqs' = 0 /\ fileReads' = 0
    /\ failure' = NoFailure /\ escaped' = FALSE
    /\ UNCHANGED <<arrived, accepted, wlog, rwIn, rwOut>>

\* the handler has returned (or its exception was logged by the server):
\* the connection is closed and the loop accepts again
Finish ==
    /\ pc = "done"
    /\ finished' = finished + 1
    /\ pc' = "accept"
    /\ method' = "" /\ reqPath' = <<>> /\ path' = <<>>
    /\ hbuf' = <<>> /\ wire' = <<>> /\ clientOk' = TRUE
    /\ resp' = NoResp /\ upChunks' = <<>> /\ pending' = <<>>
    /\ upReqs' = 0 /\ fileReads' = 0
    /\ failure' = NoFailure /\ escaped' = FALSE
    /\ UNCHANGED <<arrived, accepted, wlog, rwIn, rwOut>>

Next ==
    \/ Connect
    \/ \E m \in Methods, p \in Paths : Accept(m, p)
    \/ ClientDisconnect
    \/ do_OPTIONS
    \/ \E found \in BOOLEAN : do_GET_static(found)
    \/ do_GET_proxy
    \/ \E s \in UpStatuses, hs \in UpHeaderSets : GetResponse(s, hs)
    \/ \E f \in GetFailures : GetFail(f)
    \/ \E body \in SeqsUpTo(FetchTokens, MaxText) : ReadText(body)
    \/ \E f \in ReadFailures : ReadTextFail(f)
    \/ WriteBody
    \/ PassEndHeaders
    \/ \E chunk \in Chunks : IterChunk(chunk)
    \/ WriteChunk
    \/ IterEnd
    \/ \E f \in ReadFailures : IterFail(f)
    \/ Finish

Spec == Init /\ [][Next]_vars

----------------------------------------------------------------------------
(* The playlist rewrite on its own: every body of up to MaxBody tokens *)

InitRewrite ==
    /\ pc = "rewrite"
    /\ arrived = 0 /\ accepted = 0 /\ finished = 0
    /\ wlog = <<>>
    /\ Idle
    /\ rwIn \in SeqsUpTo(Tokens, MaxBody)
    /\ rwOut = <<>>

ApplyRewrite ==
    /\ pc = "rewrite"
    /\ rwOut' = Rewrite(rwIn)
    /\ pc' = "rewritten"
    /\ UNCHANGED <<arrived, accepted, finished, wlog, reqVars, rwIn>>

\* the rewrite applied a second time, to its own output
ApplyRewriteAgain ==
    /\ pc = "rewritten"
    /\ rwIn' = rwOut
    /\ rwOut' = Rewrite(rwOut)
    /\ pc' = "rewritten_again"
    /\ UNCHANGED <<arrived, accepted, finished, wlog, reqVars>>

NextRewrite == ApplyRewrite \/ ApplyRewriteAgain

SpecRewrite == InitRewrite /\ [][NextRewrite]_vars

----------------------------------------------------------------------------
(* Reading the wire *)

Positions(w, kind) == {i \in 1..Len(w) : w[i].k = kind}

HdrCount(w, name) ==
    Cardinality({i \in Positions(w, "hdr") : Lower(w[i].name) = Lower(name)})

RECURSIVE BodyBytes(_)
BodyBytes(w) ==
    IF w = <<>> THEN <<>>
    ELSE (IF Head(w).k = "body" THEN Head(w).data ELSE <<>>) \o BodyBytes(Tail(w))

Proxied == upReqs > 0
UpstreamFailed == failure.event \in {"timeout", "refused", "broken", "other"}
Answered == resp # NoResp

----------------------------------------------------------------------------
(* Claims *)

\* C1: every response that reaches the client carries each of the six
\* injected headers (CORS and no-cache) exactly once, whatever the upstream
\* headers are and wherever a proxy failure occurs.
C1_InjectedHeadersExactlyOnce ==
    (pc = "done" /\ wire # <<>>) =>
        \A i \in 1..Len(InjectedNames) : HdrCount(wire, InjectedNames[i]) = 1

\* C2: when a proxied request ends in a failure of the upstream fetch, the
\* status the client receives (the first status line on the wire) is the
\* engine's error status, 504 for a timeout and 502 otherwise, never the
\* upstream's status.
C2_FailureYieldsErrorStatus ==
    (pc = "done" /\ Proxied /\ UpstreamFailed /\ clientOk) =>
        /\ wire # <<>>
        /\ wire[1].k = "status"
        /\ wire[1].src = "engine"
        /\ wire[1].num = IF failure.event = "timeout" THEN 504 ELSE 502

\* C3: when the upstream fetch times out at any step, the client receives a
\* 504 and no byte of the upstream body has been written to it.
C3_TimeoutYields504NoBody ==
    (pc = "done" /\ Proxied /\ failure.event = "timeout" /\ clientOk) =>
        /\ wire # <<>>
        /\ wire[1] = StatusLine(504, "engine")
        /\ \A i \in Positions(wire, "body") : wire[i].src # "upstream"

\* the header block of a response: what precedes the first blank line
HeaderBlock(w) ==
    IF Positions(w, "end") = {} THEN w
    ELSE SubSeq(w, 1, (CHOOSE i \in Positions(w, "end") :
                           \A j \in Positions(w, "end") : i <= j) - 1)

\* C4: Content-Length is never taken from the upstream.  No header the
\* engine copies from the upstream is a Content-Length in any letter case.
\* Once the upstream has answered, the header block of a passthrough
\* response never holds a Content-Length, and the header block of a playlist
\* response holds exactly one, set by the engine; when the playlist request
\* completes, its value is the byte length of the rewritten body, which is
\* the body written after it.
C4_ContentLengthRecomputed ==
    /\ \A i \in Positions(hbuf \o wire, "hdr") :
           Lower((hbuf \o wire)[i].name) = "content-length"
               => (hbuf \o wire)[i].src = "engine"
    /\ (Answered /\ ~IsPlaylistPath(path)) =>
           HdrCount(HeaderBlock(wire), "Content-Length") = 0
    /\ (Answered /\ IsPlaylistPath(path) /\ wire # <<>>) =>
           HdrCount(HeaderBlock(wire), "Content-Length") = 1
    /\ (pc = "done" /\ Answered /\ failure = NoFailure /\ IsPlaylistPath(path)) =>
           /\ HdrCount(wire, "Content-Length") = 1
           /\ Cardinality(Positions(wire, "body")) = 1
           /\ \A i \in Positions(wire, "hdr"), j \in Positions(wire, "body") :
                  Lower(wire[i].name) = "content-length" =>
                      /\ i < j
                      /\ wire[i].num = ByteLen(wire[j].data)
                      /\ wire[j].data = Encode(Rewrite(upChunks[1]))

\* C4 witness: a playlist whose upstream sent its own content-length and
\* whose body shrinks when rewritten has been delivered
C4_Witness ==
    /\ pc = "done" /\ failure = NoFailure
    /\ IsPlaylistPath(path)
    /\ \E i \in 1..Len(resp.headers) : resp.headers[i].name = "content-length"
    /\ upChunks = << <<"http://", STREAM_SERVER>> >>
    /\ \E i \in Positions(wire, "hdr") :
           wire[i].name = "Content-Length" /\ wire[i].num = 9

\* the matches of the pattern, position by position: a token is the start of
\* a match, is swallowed by the match that starts one or two tokens before
\* it, or is other text
StartsMatch(s, i) ==
    /\ i + 1 <= Len(s)
    /\ s[i] \in {"http://", "https://"}
    /\ s[i + 1] = STREAM_SERVER

Swallowed(s, i) ==
    \/ i > 1 /\ StartsMatch(s, i - 1)
    \/ i > 2 /\ StartsMatch(s, i - 2) /\ s[i] = LIVELAN

Replaced(s) ==
    Flatten([i \in 1..Len(s) |->
                IF StartsMatch(s, i) THEN <<LIVELAN>>
                ELSE IF Swallowed(s, i) THEN <<>>
                ELSE <<s[i]>>])

\* C5: the rewritten body is the body with every scheme+origin, optionally
\* followed by /livelan/, replaced by the bare /livelan/, and everything else
\* unchanged; a body without an absolute origin reference is unchanged.
C5_RewriteCorrect ==
    pc = "rewritten" =>
        /\ rwOut = Replaced(rwIn)
        /\ (\A i \in 1..Len(rwIn) : ~StartsMatch(rwIn, i)) => rwOut = rwIn

\* C5 witness: http://ORIGIN/livelan/seg1.ts has become /livelan/seg1.ts
C5_Witness ==
    /\ pc = "rewritten"
    /\ rwIn = <<"http://", STREAM_SERVER, LIVELAN, "seg1.ts">>
    /\ rwOut = <<LIVELAN, "seg1.ts">>

\* C6: a passthrough response that completes has written to the client, in
\* order, exactly the bytes the upstream body delivered, one write per
\* non-empty chunk, and no Content-Length.
C6_PassthroughIdentical ==
    (pc = "done" /\ Answered /\ failure = NoFailure /\ ~IsPlaylistPath(path)) =>
        /\ BodyBytes(wire) = Flatten(upChunks)
        /\ Cardinality(Positions(wire, "body"))
               = Cardinality({i \in 1..Len(upChunks) : upChunks[i] # <<>>})
        /\ HdrCount(wire, "Content-Length") = 0

\* C6 witness: a body that came as a full chunk, then a short one
C6_Witness ==
    /\ pc = "done" /\ failure = NoFailure
    /\ upChunks = << <<"y", "x">>, <<"x">> >>
    /\ BodyBytes(wire) = <<"y", "x", "x">>

\* C7: a GET contacts the upstream iff its path starts with /livelan/; every
\* other GET is handled by the static handler alone, and / is served as
\* /index.html.
C7_PrefixRouting ==
    (method = "GET" /\ pc \notin {"accept", "dispatch"}) =>
        LET prefixed == /\ Len(reqPath) >= 3
                        /\ reqPath[1] = "/"
                        /\ reqPath[2] = "livelan"
                        /\ reqPath[3] = "/"
        IN  /\ (upReqs > 0) <=> prefixed
            /\ (fileReads > 0) <=> ~prefixed
            /\ reqPath = Root => path = IndexHtml
            /\ reqPath # Root => path = reqPath

\* C7 witness: /livelan, without the slash, was served by the static handler
C7_Witness ==
    /\ pc = "done" /\ method = "GET"
    /\ reqPath = <<"/", "livelan">>
    /\ fileReads = 1 /\ upReqs = 0

\* C8: an OPTIONS request to any path ends with status 200, the injected
\* headers and no body, without an upstream request or a file lookup.
C8_OptionsTerminal ==
    (method = "OPTIONS" /\ pc \notin {"accept", "dispatch"}) =>
        /\ pc = "done"
        /\ upReqs = 0 /\ fileReads = 0
        /\ Positions(wire, "body") = {}
        /\ failure = NoFailure =>
               /\ wire # <<>>
               /\ wire[1] = StatusLine(200, "engine")
               /\ Positions(wire, "status") = {1}
               /\ \A i \in 1..Len(InjectedNames) :
                      HdrCount(wire, InjectedNames[i]) = 1
               /\ Last(wire) = EndOfHeaders

\* C8 witness: OPTIONS on a /livelan/ path was answered
C8_Witness ==
    /\ method = "OPTIONS" /\ pc = "done"
    /\ reqPath = <<"/", "livelan", "/", "a", ".m3u8">>
    /\ wire # <<>>

\* C9: at most one request is being handled at any time; a connection is
\* accepted only after the previous handler has returned, and the writes of
\* different requests reach the sockets in request order, never interleaved.
C9_OneRequestAtATime ==
    /\ finished <= accepted /\ accepted <= finished + 1
    /\ (pc = "accept") <=> (accepted = finished)
    /\ \A i, j \in 1..Len(wlog) : i < j => wlog[i] < wlog[j]
    /\ \A i \in 1..Len(wlog) : wlog[i] <= accepted

\* C9 witness: a second connection waits while the first request streams
C9_Witness ==
    /\ arrived = 2 /\ accepted = 1 /\ finished = 0
    /\ pc = "write_chunk"
    /\ Positions(wire, "body") # {}

C11_RefusedYields502 ==
    (pc = "done" /\ failure.event = "refused") =>
        /\ \A i \in 1..Len(wire) : wire[i].src # "upstream"
        /\ ~Answered
        /\ clientOk =>
               /\ wire # <<>>
               /\ wire[1] = StatusLine(502, "engine")
               /\ Positions(wire, "status") = {1}
               /\ Cardinality(Positions(wire, "body")) = 1
               /\ Last(wire) = BodyWrite(
                      <<"Bad Gateway: Cannot connect to stream server">>, "engine")

\* C11 witness: a refused connection answered with the 502 page
C11_Witness ==
    /\ pc = "done"
    /\ failure = [event |-> "refused", at |-> "get", exc |-> "ConnectionError"]
    /\ wire # <<>>
    /\ wire[1].num = 502

C13_PlaylistIffSuffix ==
    Answered =>
        LET playlist == reqPath # <<>> /\ Last(reqPath) = ".m3u8"
        IN  /\ pc \in {"text", "write_body"} => playlist
            /\ pc \in {"end_headers", "iter", "write_chunk"} => ~playlist
            /\ (pc = "done" /\ failure = NoFailure) =>
                   IF playlist
                   THEN /\ Cardinality(Positions(wire, "body")) = 1
                        /\ \A j \in Positions(wire, "body") :
                               wire[j].data = Encode(Rewrite(upChunks[1]))
                   ELSE /\ HdrCount(wire, "Content-Length") = 0
                        /\ BodyBytes(wire) = Flatten(upChunks)

\* C13 witness: /livelan/a.m3u8?token=x was streamed unmodified
C13_Witness ==
    /\ pc = "done" /\ failure = NoFailure
    /\ reqPath = <<"/", "livelan", "/", "a", ".m3u8", "?token=x">>
    /\ upChunks = << <<"y", "x">> >>
    /\ BodyBytes(wire) = <<"y", "x">>

\* C14: in the passthrough branch every non-empty chunk is written before
\* the next one is read.  While the handler waits for the upstream it holds
\* nothing and everything read so far is on the wire; while it writes it
\* holds exactly the one chunk just read; an empty chunk causes no write.
C14_ChunkWrittenBeforeNextRead ==
    /\ pc = "iter" =>
           /\ pending = <<>>
           /\ BodyBytes(wire) = Flatten(upChunks)
    /\ pc = "write_chunk" =>
           /\ pending \in Chunks \ {<<>>}
           /\ pending = Last(upChunks)
           /\ BodyBytes(wire) \o pending = Flatten(upChunks)
    /\ pc \in {"iter", "write_chunk"} =>
           /\ \A j \in Positions(wire, "body") : wire[j].data \in Chunks \ {<<>>}
           /\ Cardinality(Positions(wire, "body"))
                  = Cardinality({i \in 1..Len(upChunks) : upChunks[i] # <<>>})
                      - (IF pc = "write_chunk" THEN 1 ELSE 0)

\* C14 witness: the first chunk is on the wire, an empty chunk was skipped
\* and the upstream body has not ended yet
C14_Witness ==
    /\ pc = "iter"
    /\ upChunks = << <<"y", "x">>, <<>> >>
    /\ Cardinality(Positions(wire, "body")) = 1
    /\ BodyBytes(wire) = <<"y", "x">>

----------------------------------------------------------------------------
(* Progress of a running handler *)

\* the steps of a handler and of the loop that runs it, for upstream answers
\* drawn from the given sets.  Each of them ends a blocking operation: the
\* upstream connect and every upstream read return data, end the body or
\* time out after 10 s, and a write to the client completes or fails
HandlerStep(statuses, headerSets, texts) ==
    \/ do_OPTIONS
    \/ \E found \in BOOLEAN : do_GET_static(found)
    \/ do_GET_proxy
    \/ \E s \in statuses, hs \in headerSets : GetResponse(s, hs)
    \/ \E f \in GetFailures : GetFail(f)
    \/ \E body \in texts : ReadText(body)
    \/ \E f \in ReadFailures : ReadTextFail(f)
    \/ WriteBody
    \/ PassEndHeaders
    \/ \E chunk \in Chunks : IterChunk(chunk)
    \/ WriteChunk
    \/ IterEnd
    \/ \E f \in ReadFailures : IterFail(f)
    \/ Finish

\* Which step a handler takes next depends on the method, the path, the
\* failures and the chunk boundaries, not on the status, the headers or the
\* playlist text, so these are drawn from a few representatives here
LiveStatuses == {200, 503}
LiveHeaderSets == {<<>>, <<[name |-> "Cache-Control", val |-> "max-age=60"]>>}
LiveTexts == {<<>>, <<"http://", STREAM_SERVER>>}

LiveStep == HandlerStep(LiveStatuses, LiveHeaderSets, LiveTexts)

NextLive ==
    \/ Connect
    \/ \E m \in Methods, p \in Paths : Accept(m, p)
    \/ ClientDisconnect
    \/ LiveStep

SpecLive == Init /\ [][NextLive]_vars /\ WF_vars(LiveStep)

RECURSIVE Forwarded(_)
Forwarded(w) ==
    IF w = <<>> THEN <<>>
    ELSE (IF Head(w).k = "hdr" /\ Head(w).src = "upstream"
          THEN <<[name |-> Head(w).name, val |-> Head(w).val]>>
          ELSE <<>>) \o Forwarded(Tail(w))

\* the upstream headers that are to be forwarded: those whose name is not,
\* in any letter case, one of the three excluded names
Kept(hs) ==
    SelectSeq(hs, LAMBDA h :
        h.name \notin {"Content-Length", "content-length", "CONTENT-LENGTH",
                       "Transfer-Encoding", "transfer-encoding",
                       "Content-Encoding", "content-encoding"})

C17_SingleWellOrderedResponse ==
    wire # <<>> =>
        /\ wire[1].k = "status"
        /\ Positions(wire, "status") = {1}
        /\ Cardinality(Positions(wire, "end")) = 1
        /\ \A e \in Positions(wire, "end") :
               /\ \A i \in Positions(wire, "hdr") : i < e
               /\ \A j \in Positions(wire, "body") : e < j

\* an absolute reference to the stream server starts at position i of s
OriginRefAt(s, i) ==
    /\ i < Len(s)
    /\ s[i] \in {"http://", "https://"}
    /\ s[i + 1] = STREAM_SERVER

\* C18: a rewritten body holds no http:// or https:// followed by the
\* configured origin, and rewriting a rewritten body returns it unchanged.
C18_RewriteIdempotentComplete ==
    /\ pc \in {"rewritten", "rewritten_again"} =>
           \A i \in 1..Len(rwOut) : ~OriginRefAt(rwOut, i)
    /\ pc = "rewritten_again" => rwOut = rwIn

\* C18 witness: http://http://ORIGIN ORIGIN was rewritten to
\* http:// /livelan/ ORIGIN, and the second pass left that unchanged
C18_Witness ==
    /\ pc = "rewritten_again"
    /\ rwIn = <<"http://", LIVELAN, STREAM_SERVER>>
    /\ rwOut = rwIn

====
